---- MODULE Spec2Model ----
(***************************************************************************)
(* A model of bilibili_video_info_mcp: the two credential caches           *)
(* (_wbi_keys_cache, _buvid3_cache), the WBI signature (_enc_wbi), the      *)
(* resolver (extract_bvid), the start of the server and its tools.          *)
(*                                                                         *)
(* Python values.  A str is a sequence of tokens: a token is one of the    *)
(* characters the code treats specially, or a run of unreserved            *)
(* characters ([A-Za-z0-9_-~]) that every operation here passes through    *)
(* whole.  Credentials (keys, cookies) are single tokens, written as TLA+  *)
(* strings; "" is the empty str and None the Python None.  A dict is a     *)
(* function; an argument that is None is a name absent from the domain.    *)
(*                                                                         *)
(* Time.  time.time() is a float; the clock `now` counts ticks of          *)
(* 1/TicksPerSecond second.                                                *)
(*                                                                         *)
(* Specifications.                                                         *)
(*   Spec          the search tool of the server, one invocation at a      *)
(*                 time, at one clock reading                              *)
(*   SpecServer    the server from its start (import, registration of the  *)
(*                 tools, run) and its content tools get_subtitles,        *)
(*                 get_danmaku and get_comments, one invocation at a time  *)
(*   SpecCache     _get_wbi_keys and _get_buvid3 called one at a time      *)
(*                 while the clock advances                                *)
(*   SpecConc      the two getters called from several threads, statement  *)
(*                 by statement                                            *)
(*   SpecSign      _enc_wbi at clock readings a fraction of a second apart *)
(*   SpecResolver  extract_bvid on URLs                                    *)
(***************************************************************************)
EXTENDS Integers, Sequences, FiniteSets, TLC

VARIABLES
    now,               \* time.time(), in ticks
    ticks,             \* how often the clock was advanced
    _wbi_keys_cache,   \* bilibili_api._wbi_keys_cache
    _buvid3_cache,     \* bilibili_api._buvid3_cache
    last,              \* the last completed call: its arguments, network calls, result
    prev,              \* the call completed before `last`
    pc,                \* per thread: position inside a cache getter
    loc,               \* per thread: the getter's local variables
    SESSDATA,          \* bilibili_api.SESSDATA
    tools,             \* the tools registered with the FastMCP instance
    boot               \* how far the start of the server has come

vars == <<now, ticks, _wbi_keys_cache, _buvid3_cache, last, prev, pc, loc,
          SESSDATA, tools, boot>>

\* what the start of the server assigns
server == <<SESSDATA, tools, boot>>

----------------------------------------------------------------------------
(* Bounds of the model *)

TicksPerSecond == 4
MaxTicks == 2
StartTime == 100000
NThreads == 2
WbiKeyLen == 32
SignSpan == 1
MaxUrlLen == 3

(* Program constants *)

WBI_KEYS_CACHE_TTL == 3600
BUVID3_CACHE_TTL == 86400

None == "None"

\* Python truthiness of a str-or-None value
Truthy(v) == v /= None /\ v /= ""

NoCall == [op |-> "none"]

----------------------------------------------------------------------------
(* The clock *)

Seconds(n) == n * TicksPerSecond

TickDeltas ==
    { 1,
      Seconds(1),
      Seconds(WBI_KEYS_CACHE_TTL - 1),
      Seconds(BUVID3_CACHE_TTL - 1) }

Tick ==
    /\ ticks < MaxTicks
    /\ \E d \in TickDeltas : now' = now + d
    /\ ticks' = ticks + 1
    /\ UNCHANGED <<server, _wbi_keys_cache, _buvid3_cache, last, prev, pc, loc>>

----------------------------------------------------------------------------
(* Responses of the two credential endpoints *)

RequestException == [kind |-> "RequestException"]

\* A URL of the nav response: a sequence of tokens, "/" and "." being the
\* separators rsplit and split look for.
ImgUrl(k) == <<"https:", "/", "/", "i0", ".", "hdslb", ".", "com", "/", "bfs", "/", "wbi", "/", k, ".", "png">>

\* GET /x/web-interface/nav: a RequestException (transport failure, an HTTP
\* error status in raise_for_status, an unparsable body in json()), a JSON
\* object whose "data" is null, or a JSON object with data.wbi_img.img_url
\* and sub_url ("" when the field is missing).
NavBodies ==
    { [kind |-> "json", fetch |-> 1, img_url |-> ImgUrl("i1"), sub_url |-> ImgUrl("s1")],
      [kind |-> "json", fetch |-> 2, img_url |-> ImgUrl("i2"), sub_url |-> ImgUrl("s2")],
      [kind |-> "json", fetch |-> 3, img_url |-> ImgUrl("i3"), sub_url |-> <<>>],
      [kind |-> "json", fetch |-> 4, img_url |-> <<>>, sub_url |-> ImgUrl("s4")],
      [kind |-> "json", fetch |-> 5, img_url |-> <<>>, sub_url |-> <<>>],
      [kind |-> "json", fetch |-> 6, img_url |-> <<"https:", "/", "/", "i0", "/">>, sub_url |-> ImgUrl("s6")] }

NavOutcomes == NavBodies \cup {RequestException, [kind |-> "data_null"]}

\* GET https://www.bilibili.com/: a RequestException, or a response whose
\* cookie jar gives buvid3 and b_nut ("" when the cookie is missing).
HomeBodies ==
    { [kind |-> "cookies", fetch |-> 1, buvid3 |-> "b1", b_nut |-> "n1"],
      [kind |-> "cookies", fetch |-> 2, buvid3 |-> "b2", b_nut |-> ""],
      [kind |-> "cookies", fetch |-> 3, buvid3 |-> "", b_nut |-> "n3"],
      [kind |-> "cookies", fetch |-> 4, buvid3 |-> "", b_nut |-> ""] }

HomeOutcomes == HomeBodies \cup {RequestException}

----------------------------------------------------------------------------
(* str helpers *)

RECURSIVE Join(_)
Join(s) == IF s = <<>> THEN "" ELSE Head(s) \o Join(Tail(s))

\* the positions of token c in s
Positions(s, c) == {i \in 1..Len(s) : s[i] = c}

Max(S) == CHOOSE x \in S : \A y \in S : y <= x
Min(S) == CHOOSE x \in S : \A y \in S : x <= y

\* url.rsplit('/', 1)[-1]
RSplitLast(s) ==
    IF Positions(s, "/") = {} THEN s
    ELSE SubSeq(s, Max(Positions(s, "/")) + 1, Len(s))

\* s.split('.')[0]
SplitFirst(s) ==
    IF Positions(s, ".") = {} THEN s
    ELSE SubSeq(s, 1, Min(Positions(s, ".")) - 1)

\* img_url.rsplit('/', 1)[-1].split('.')[0] if img_url else ''
KeyOfUrl(url) == IF url = <<>> THEN "" ELSE Join(SplitFirst(RSplitLast(url)))

----------------------------------------------------------------------------
(* _get_buvid3: the whole call, under one outcome of its fetch.            *)
(* The result: the cache afterwards, the returned pair, the network calls  *)
(* issued, and whether the call raised.                                    *)

Buvid3CacheValid(cache, current_time) ==
    /\ Truthy(cache.buvid3)
    /\ current_time - cache.last_update < Seconds(BUVID3_CACHE_TTL)

\* mutant: the cookies of a response are stored whatever they are
Buvid3Storable_Always(buvid3) == TRUE

\* "if buvid3": the fetched cookies are stored
Buvid3Storable(buvid3) == Truthy(buvid3)

_get_buvid3(cache, current_time, outcome) ==
    IF Buvid3CacheValid(cache, current_time)
    THEN [cache |-> cache, ret |-> <<cache.buvid3, cache.b_nut>>,
          net |-> <<>>, raised |-> FALSE]
    ELSE IF outcome.kind = "cookies" /\ Buvid3Storable(outcome.buvid3)
    THEN [cache |-> [buvid3 |-> outcome.buvid3, b_nut |-> outcome.b_nut,
                     last_update |-> current_time],
          ret |-> <<outcome.buvid3, outcome.b_nut>>,
          net |-> <<"home">>, raised |-> FALSE]
    ELSE IF Truthy(cache.buvid3)
    THEN [cache |-> cache, ret |-> <<cache.buvid3, cache.b_nut>>,
          net |-> <<"home">>, raised |-> FALSE]
    ELSE [cache |-> cache, ret |-> <<"", "">>,
          net |-> <<"home">>, raised |-> FALSE]

----------------------------------------------------------------------------
(* _get_wbi_keys: the whole call, under one outcome of its fetch.          *)

\* mutant: the entry is still served at the instant its age reaches the TTL
WbiCacheValid_AgeLeq(cache, current_time) ==
    /\ Truthy(cache.img_key)
    /\ Truthy(cache.sub_key)
    /\ current_time - cache.last_update <= Seconds(WBI_KEYS_CACHE_TTL)

WbiCacheValid(cache, current_time) ==
    /\ Truthy(cache.img_key)
    /\ Truthy(cache.sub_key)
    /\ current_time - cache.last_update < Seconds(WBI_KEYS_CACHE_TTL)

\* mutant: a response with one of the two keys is stored
WbiStorable_Either(img_key, sub_key) == Truthy(img_key) \/ Truthy(sub_key)

\* "if img_key and sub_key": the fetched pair is stored
WbiStorable(img_key, sub_key) == Truthy(img_key) /\ Truthy(sub_key)

_get_wbi_keys(cache, current_time, outcome) ==
    IF WbiCacheValid(cache, current_time)
    THEN [cache |-> cache, ret |-> <<cache.img_key, cache.sub_key>>,
          net |-> <<>>, raised |-> FALSE]
    ELSE IF outcome.kind = "data_null"
    \* json_content.get('data', {}) is None: .get on it raises AttributeError,
    \* which "except requests.RequestException" does not catch
    THEN [cache |-> cache, ret |-> <<None, None>>,
          net |-> <<"nav">>, raised |-> TRUE]
    ELSE IF outcome.kind = "json"
            /\ WbiStorable(KeyOfUrl(outcome.img_url), KeyOfUrl(outcome.sub_url))
    THEN [cache |-> [img_key |-> KeyOfUrl(outcome.img_url),
                     sub_key |-> KeyOfUrl(outcome.sub_url),
                     last_update |-> current_time],
          ret |-> <<KeyOfUrl(outcome.img_url), KeyOfUrl(outcome.sub_url)>>,
          net |-> <<"nav">>, raised |-> FALSE]
    ELSE IF Truthy(cache.img_key) /\ Truthy(cache.sub_key)
    THEN [cache |-> cache, ret |-> <<cache.img_key, cache.sub_key>>,
          net |-> <<"nav">>, raised |-> FALSE]
    ELSE [cache |-> cache, ret |-> <<"", "">>,
          net |-> <<"nav">>, raised |-> FALSE]

----------------------------------------------------------------------------
(* The signature engine *)

MIXIN_KEY_ENC_TAB ==
    << 46, 47, 18, 2, 53, 8, 23, 32, 15, 50, 10, 31, 58, 3, 45, 35, 27, 43, 5, 49,
       33, 9, 42, 19, 29, 28, 14, 39, 12, 38, 41, 13, 37, 48, 7, 16, 24, 55, 40,
       61, 26, 17, 0, 1, 60, 51, 30, 4, 22, 25, 54, 21, 56, 59, 6, 63, 57, 62, 11,
       36, 20, 34, 44, 52 >>

\* The characters of a key: the keys the nav endpoint serves are WbiKeyLen
\* characters long (32 in practice; _get_mixin_key reads up to position 63
\* of two keys put together), character j of key k being written "k.j".
KeyChars(k) == [j \in 1..WbiKeyLen |-> k \o "." \o ToString(j)]

\* reduce(lambda s, i: s + orig[i], MIXIN_KEY_ENC_TAB, '')[:32]
_get_mixin_key(orig) ==
    SubSeq([i \in 1..Len(MIXIN_KEY_ENC_TAB) |-> orig[MIXIN_KEY_ENC_TAB[i] + 1]], 1, 32)

\* round(t) of a float t given in ticks: to the nearest integer, a tie to
\* the even one
Round(t) ==
    LET s == t \div TicksPerSecond
        f == t % TicksPerSecond
    IN  IF 2 * f < TicksPerSecond THEN s
        ELSE IF 2 * f > TicksPerSecond THEN s + 1
        ELSE IF s % 2 = 0 THEN s ELSE s + 1

\* int(t): the clock second t falls in
Floor(t) == t \div TicksPerSecond

\* d[k] = v on a dict
Put(d, k, v) == [x \in DOMAIN d \cup {k} |-> IF x = k THEN v ELSE d[x]]

\* the parameters whose values are ints; the others are strs
IntParams ==
    {"page", "duration", "tids", "user_type", "order_sort", "category_id",
     "pubtime_begin_s", "pubtime_end_s", "wts"}

\* str(v) of the value of parameter k
Str(k, v) == IF k \in IntParams THEN <<ToString(v)>> ELSE v

\* ''.join(filter(lambda c: c not in "!'()*", s))
FilterChars(s) == SelectSeq(s, LAMBDA c : c \notin {"!", "'", "(", ")", "*"})

\* the parameter names in the order sorted() puts them
ParamOrder ==
    << "category_id", "duration", "keyword", "order", "order_sort", "page",
       "pubtime_begin_s", "pubtime_end_s", "search_type", "tids", "user_type",
       "w_rid", "wts" >>

\* dict(sorted(params.items())): the names of the dict, sorted
SortedKeys(params) == SelectSeq(ParamOrder, LAMBDA k : k \in DOMAIN params)

\* urllib.parse.quote_plus of one token: a space becomes "+", a reserved
\* character its percent escape, an unreserved run stays
QuotePlus(c) ==
    CASE c = " " -> "+"
      [] c = "&" -> "%26"
      [] c = "=" -> "%3D"
      [] c = "!" -> "%21"
      [] c = "'" -> "%27"
      [] c = "(" -> "%28"
      [] c = ")" -> "%29"
      [] c = "*" -> "%2A"
      [] OTHER -> c

QuoteStr(s) == [i \in 1..Len(s) |-> QuotePlus(s[i])]

\* urllib.parse.urlencode of the items keys[1], keys[2], ... of a dict of strs
RECURSIVE UrlEncode(_, _)
UrlEncode(params, keys) ==
    IF keys = <<>> THEN <<>>
    ELSE <<Head(keys), "=">> \o QuoteStr(params[Head(keys)])
         \o (IF Tail(keys) = <<>> THEN <<>> ELSE <<"&">> \o UrlEncode(params, Tail(keys)))

\* md5(text).hexdigest(): the digest is written as the text it is the digest
\* of (no two texts of the model collide)
Md5Hex(text) == <<"md5">> \o text

\* mutant: wts is the clock reading itself, not rounded to a second
_enc_wbi_Unrounded(params, img_key, sub_key, time) ==
    LET mixin_key == _get_mixin_key(KeyChars(img_key) \o KeyChars(sub_key))
        mutated == Put(params, "wts", time)
        cleaned == [k \in DOMAIN mutated |-> FilterChars(Str(k, mutated[k]))]
        query == UrlEncode(cleaned, SortedKeys(cleaned))
    IN  [caller |-> mutated,
         ret |-> Put(cleaned, "w_rid", Md5Hex(query \o mixin_key))]

\* _enc_wbi(params, img_key, sub_key) called at clock reading `time`:
\* `caller` is the dict the caller passed in, as the call leaves it, and
\* `ret` the dict returned.
_enc_wbi(params, img_key, sub_key, time) ==
    LET mixin_key == _get_mixin_key(KeyChars(img_key) \o KeyChars(sub_key))
        curr_time == Round(time)
        \* params['wts'] = curr_time: an item assignment on the caller's dict
        mutated == Put(params, "wts", curr_time)
        \* params = dict(sorted(...)); params = {k: ...}: new dicts
        cleaned == [k \in DOMAIN mutated |-> FilterChars(Str(k, mutated[k]))]
        query == UrlEncode(cleaned, SortedKeys(cleaned))
        wbi_sign == Md5Hex(query \o mixin_key)
    IN  [caller |-> mutated, ret |-> Put(cleaned, "w_rid", wbi_sign)]

----------------------------------------------------------------------------
(* The resolver.  A URL is a sequence of characters. *)

\* the characters of the model's URLs that [a-zA-Z0-9_] matches
WordChars == {"B", "V", "1", "_", "b", "2", "3", "t", "v"}

\* where r'BV[a-zA-Z0-9_]+' can match in url
MatchStarts(url) ==
    {i \in 1..(Len(url) - 2) :
        url[i] = "B" /\ url[i + 1] = "V" /\ url[i + 2] \in WordChars}

\* re.search(r'BV[a-zA-Z0-9_]+', url): the leftmost match, as long as it
\* can be; <<>> stands for "no match" (a match is never empty)
MatchBV(url) ==
    IF MatchStarts(url) = {} THEN <<>>
    ELSE LET i == Min(MatchStarts(url))
             end == Max({j \in (i + 2)..Len(url) :
                            \A m \in (i + 2)..j : url[m] \in WordChars})
         IN  SubSeq(url, i, end)

ShortDomain == <<"b", "2", "3", ".", "t", "v">>

\* 'b23.tv' in url
IsShortLink(url) ==
    \E i \in 1..(Len(url) - Len(ShortDomain) + 1) :
        SubSeq(url, i, i + Len(ShortDomain) - 1) = ShortDomain

\* mutant: a short link is resolved before the URL text is searched
extract_bvid_ResolveFirst(url, outcome) ==
    IF IsShortLink(url)
    THEN IF outcome.kind = "response" /\ outcome.status_code = 200
            /\ MatchBV(outcome.url) /= <<>>
         THEN [ret |-> MatchBV(outcome.url), net |-> <<"head">>, raised |-> FALSE]
         ELSE [ret |-> <<>>, net |-> <<"head">>, raised |-> FALSE]
    ELSE [ret |-> MatchBV(url), net |-> <<>>, raised |-> FALSE]

\* extract_bvid(url), under one outcome of its HEAD request; the result
\* None is written <<>>
extract_bvid(url, outcome) ==
    IF MatchBV(url) /= <<>>
    THEN [ret |-> MatchBV(url), net |-> <<>>, raised |-> FALSE]
    ELSE IF IsShortLink(url)
    THEN IF outcome.kind = "response" /\ outcome.status_code = 200
            /\ MatchBV(outcome.url) /= <<>>
         THEN [ret |-> MatchBV(outcome.url), net |-> <<"head">>, raised |-> FALSE]
         ELSE [ret |-> <<>>, net |-> <<"head">>, raised |-> FALSE]
    ELSE [ret |-> <<>>, net |-> <<>>, raised |-> FALSE]

----------------------------------------------------------------------------
(* The search operation *)

\* mutant: only a secret that is not set is refused
get_seesdata_UnsetOnly(value) ==
    IF value = None
    THEN [ret |-> None, raised |-> TRUE, exc |-> "ValueError"]
    ELSE [ret |-> value, raised |-> FALSE, exc |-> ""]

\* get_seesdata(), os.getenv("SESSDATA") giving value (None: not set)
get_seesdata(value) ==
    IF ~Truthy(value)
    THEN [ret |-> None, raised |-> TRUE, exc |-> "ValueError"]
    ELSE [ret |-> value, raised |-> FALSE, exc |-> ""]

SEARCH_TYPES ==
    { <<"video">>, <<"media_bangumi">>, <<"media_ft">>, <<"live">>,
      <<"live_room">>, <<"live_user">>, <<"article">>, <<"topic">>,
      <<"bili_user">>, <<"photo">> }

\* _get_headers(with_buvid3): the Cookie header as a sequence of
\* <<name, value>>, with the _get_buvid3 call it makes
_get_headers(with_buvid3, cache, current_time, outcome) ==
    LET g == IF with_buvid3
             THEN _get_buvid3(cache, current_time, outcome)
             ELSE [cache |-> cache, ret |-> <<"", "">>, net |-> <<>>, raised |-> FALSE]
    IN  [cookies |-> (IF Truthy(SESSDATA) THEN <<<<"SESSDATA", SESSDATA>>>> ELSE <<>>)
                     \o (IF Truthy(g.ret[1]) THEN <<<<"buvid3", g.ret[1]>>>> ELSE <<>>)
                     \o (IF Truthy(g.ret[2]) THEN <<<<"b_nut", g.ret[2]>>>> ELSE <<>>),
         cache |-> g.cache,
         net |-> g.net]

\* mutant: the parameters are signed whatever the keys are
_sign_params_wbi_Always(params, cache, current_time, outcome) ==
    LET g == _get_wbi_keys(cache, current_time, outcome)
    IN  IF g.raised
        THEN [params |-> params, keys |-> g.ret, cache |-> g.cache, net |-> g.net,
              raised |-> TRUE]
        ELSE [params |-> _enc_wbi(params, g.ret[1], g.ret[2], current_time).ret,
              keys |-> g.ret, cache |-> g.cache, net |-> g.net, raised |-> FALSE]

\* _sign_params_wbi(params): the dict to send, with the _get_wbi_keys call
\* it makes (whose own _get_headers() touches no cache)
_sign_params_wbi(params, cache, current_time, outcome) ==
    LET g == _get_wbi_keys(cache, current_time, outcome)
    IN  IF g.raised
        THEN [params |-> params, keys |-> g.ret, cache |-> g.cache, net |-> g.net,
              raised |-> TRUE]
        ELSE IF ~Truthy(g.ret[1]) \/ ~Truthy(g.ret[2])
        THEN [params |-> params, keys |-> g.ret, cache |-> g.cache, net |-> g.net,
              raised |-> FALSE]
        ELSE [params |-> _enc_wbi(params, g.ret[1], g.ret[2], current_time).ret,
              keys |-> g.ret, cache |-> g.cache, net |-> g.net, raised |-> FALSE]

\* mutant: every search type is accepted
ValidSearchType_Any(search_type) == TRUE

\* "search_type not in SEARCH_TYPES" is false
ValidSearchType(search_type) == search_type \in SEARCH_TYPES

Given(args, k) == k \in DOMAIN args

\* mutant: duration and tids are sent whatever the search type is
SearchParamNames_NoTypeTest(args) ==
    {"keyword", "search_type", "page"}
    \cup (IF Given(args, "order") /\ args["order"] /= <<>> THEN {"order"} ELSE {})
    \cup (IF Given(args, "duration") THEN {"duration"} ELSE {})
    \cup (IF Given(args, "tids") THEN {"tids"} ELSE {})
    \cup (IF Given(args, "user_type") /\ args["search_type"] = <<"bili_user">>
          THEN {"user_type"} ELSE {})
    \cup (IF Given(args, "order_sort") /\ args["search_type"] = <<"bili_user">>
          THEN {"order_sort"} ELSE {})
    \cup (IF Given(args, "category_id")
             /\ args["search_type"] \in {<<"article">>, <<"photo">>}
          THEN {"category_id"} ELSE {})
    \cup (IF args["pubtime_begin_s"] /= 0 THEN {"pubtime_begin_s"} ELSE {})
    \cup (IF args["pubtime_end_s"] /= 0 THEN {"pubtime_end_s"} ELSE {})

\* the names of the params dict search_by_type builds (lines 343-364): an
\* argument that is None is not in DOMAIN args
SearchParamNames(args) ==
    {"keyword", "search_type", "page"}
    \cup (IF Given(args, "order") /\ args["order"] /= <<>> THEN {"order"} ELSE {})
    \cup (IF Given(args, "duration") /\ args["search_type"] = <<"video">>
          THEN {"duration"} ELSE {})
    \cup (IF Given(args, "tids") /\ args["search_type"] = <<"video">>
          THEN {"tids"} ELSE {})
    \cup (IF Given(args, "user_type") /\ args["search_type"] = <<"bili_user">>
          THEN {"user_type"} ELSE {})
    \cup (IF Given(args, "order_sort") /\ args["search_type"] = <<"bili_user">>
          THEN {"order_sort"} ELSE {})
    \cup (IF Given(args, "category_id")
             /\ args["search_type"] \in {<<"article">>, <<"photo">>}
          THEN {"category_id"} ELSE {})
    \cup (IF args["pubtime_begin_s"] /= 0 THEN {"pubtime_begin_s"} ELSE {})
    \cup (IF args["pubtime_end_s"] /= 0 THEN {"pubtime_end_s"} ELSE {})

\* GET /x/web-interface/search/type: a RequestException, or a JSON object
\* with its application code
SearchOutcomes ==
    {RequestException, [kind |-> "json", code |-> 0], [kind |-> "json", code |-> -412]}

NoParams == <<>>

\* search_by_type(**args) at clock reading current_time, under one outcome
\* of each request it may issue
search_by_type(args, wbi, buvid3, current_time, home, nav, resp) ==
    IF ~ValidSearchType(args["search_type"])
    THEN [results |-> <<>>, error |-> "Invalid search_type", raised |-> FALSE,
          net |-> <<>>, dispatched |-> FALSE, sent |-> NoParams,
          cookies |-> <<>>, keys |-> <<None, None>>,
          wbi |-> wbi, buvid3 |-> buvid3]
    ELSE
    LET headers == _get_headers(TRUE, buvid3, current_time, home)
        params == [k \in SearchParamNames(args) |-> args[k]]
        signed == _sign_params_wbi(params, wbi, current_time, nav)
    IN  IF signed.raised
        THEN [results |-> <<>>, error |-> "AttributeError", raised |-> TRUE,
              net |-> headers.net \o signed.net, dispatched |-> FALSE,
              sent |-> NoParams, cookies |-> headers.cookies, keys |-> signed.keys,
              wbi |-> signed.cache, buvid3 |-> headers.cache]
        ELSE [results |-> IF resp.kind = "json" /\ resp.code = 0
                          THEN <<"results">> ELSE <<>>,
              error |-> IF resp.kind = "RequestException"
                        THEN "Failed to perform search"
                        ELSE IF resp.code /= 0 THEN "API error" ELSE "",
              raised |-> FALSE,
              net |-> headers.net \o signed.net \o <<"search">>,
              dispatched |-> TRUE, sent |-> signed.params,
              cookies |-> headers.cookies, keys |-> signed.keys,
              wbi |-> signed.cache, buvid3 |-> headers.cache]

\* server.search, lines 190-196: the publish-time window of recent_weeks or
\* recent_days replaces pubtime_begin_s and pubtime_end_s
WithRecent(args, current_time) ==
    IF args["recent_weeks"] > 0
    THEN [args EXCEPT !["pubtime_end_s"] = Floor(current_time),
                      !["pubtime_begin_s"] =
                          Floor(current_time) - args["recent_weeks"] * 7 * 24 * 3600]
    ELSE IF args["recent_days"] > 0
    THEN [args EXCEPT !["pubtime_end_s"] = Floor(current_time),
                      !["pubtime_begin_s"] =
                          Floor(current_time) - args["recent_days"] * 24 * 3600]
    ELSE args

\* the tool server.search: what it returns is {"error": ...} or the results
search(args, wbi, buvid3, current_time, home, nav, resp) ==
    LET r == search_by_type(WithRecent(args, current_time), wbi, buvid3,
                            current_time, home, nav, resp)
    IN  [r EXCEPT !.results = IF r.error /= "" THEN <<>> ELSE r.results]

----------------------------------------------------------------------------
(* The content operations.  A JSON object is a function from its keys, a   *)
(* JSON array a sequence, JSON null is Null.  The None returned in place   *)
(* of an error descriptor is written <<>>, as is the None of extract_bvid. *)
(* Identifiers (aid, cid) and texts pass through the code whole.  A body   *)
(* that json() cannot parse raises requests.exceptions.JSONDecodeError, a  *)
(* RequestException, like a transport failure and like the HTTPError of    *)
(* raise_for_status().                                                     *)

Null == [null |-> TRUE]

\* d.get(k, default)
Get(d, k, default) == IF k \in DOMAIN d THEN d[k] ELSE default

\* the empty dict {}
EmptyDict == <<>>

\* d.get('code') == 0
CodeIsZero(d) == "code" \in DOMAIN d /\ d["code"] = 0

\* what an operation hands back when an exception leaves it
Raise(exc, net) == [raised |-> TRUE, exc |-> exc, net |-> net]

\* get_video_basic_info(bvid), under one outcome of its request
get_video_basic_info(bvid, outcome) ==
    LET net == <<"view">>
    IN  IF outcome.kind = "RequestException"
        THEN [aid |-> None, cid |-> None,
              error |-> [error |-> "Failed to fetch video details"],
              raised |-> FALSE, exc |-> "", net |-> net]
        ELSE
        LET data_view == outcome.body
        IN  IF "code" \notin DOMAIN data_view
            THEN Raise("KeyError", net)
            ELSE IF data_view["code"] /= 0
            THEN [aid |-> None, cid |-> None,
                  error |-> [error |-> "Failed to get video info", details |-> data_view],
                  raised |-> FALSE, exc |-> "", net |-> net]
            ELSE IF "data" \notin DOMAIN data_view
            THEN Raise("KeyError", net)
            ELSE IF data_view["data"] = Null
            THEN Raise("AttributeError", net)
            ELSE [aid |-> Get(data_view["data"], "aid", None),
                  cid |-> Get(data_view["data"], "cid", None),
                  error |-> <<>>, raised |-> FALSE, exc |-> "", net |-> net]

\* subtitle_data.get('code') == 0 and
\* subtitle_data.get('data', {}).get('subtitle', {}).get('subtitles'):
\* the track list the loop runs over (empty when the test is false), or
\* the AttributeError of .get on a null
ListedTracks(subtitle_data) ==
    IF ~CodeIsZero(subtitle_data)
    THEN [raised |-> FALSE, tracks |-> <<>>]
    ELSE LET data == Get(subtitle_data, "data", EmptyDict)
         IN  IF data = Null THEN [raised |-> TRUE, tracks |-> <<>>]
             ELSE LET subtitle == Get(data, "subtitle", EmptyDict)
                  IN  IF subtitle = Null THEN [raised |-> TRUE, tracks |-> <<>>]
                      ELSE [raised |-> FALSE,
                            tracks |-> Get(subtitle, "subtitles", <<>>)]

\* [item.get('content', '') for item in subtitle_body]
ContentList(subtitle_body) ==
    [i \in 1..Len(subtitle_body) |-> Get(subtitle_body[i], "content", "")]

\* mutant: a track whose body request failed is kept, without content
FetchTrack_KeepFailed(sub_meta, outcome) ==
    IF outcome.kind = "RequestException"
    THEN << [lan |-> sub_meta["lan"], content |-> <<>>] >>
    ELSE << [lan |-> sub_meta["lan"],
             content |-> ContentList(Get(outcome.body, "body", <<>>))] >>

\* the try block of one track, lines 260-272, under the outcome of its body
\* request: what it appends to subtitles
FetchTrack(sub_meta, outcome) ==
    IF outcome.kind = "RequestException"
    THEN <<>>
    ELSE << [lan |-> sub_meta["lan"],
             content |-> ContentList(Get(outcome.body, "body", <<>>))] >>

\* the loop over the listed tracks, lines 258-272: bodies gives the outcome
\* of the request for each content URL (the URL stands for the request of
\* "https:" + URL)
RECURSIVE FetchTracks(_, _)
FetchTracks(tracks, bodies) ==
    IF tracks = <<>> THEN [subtitles |-> <<>>, net |-> <<>>]
    ELSE
    LET sub_meta == Head(tracks)
        rest == FetchTracks(Tail(tracks), bodies)
        subtitle_url == Get(sub_meta, "subtitle_url", None)
    IN  IF ~Truthy(subtitle_url) THEN rest
        ELSE [subtitles |-> FetchTrack(sub_meta, bodies[subtitle_url]) \o rest.subtitles,
              net |-> <<subtitle_url>> \o rest.net]

\* bilibili_api.get_subtitles(aid, cid), under one outcome of the listing request and of
\* each body request
bilibili_api_get_subtitles(aid, cid, outcome, bodies) ==
    LET net == <<"subtitle">>
    IN  IF outcome.kind = "RequestException"
        THEN [ret |-> <<>>, error |-> [error |-> "Could not fetch subtitles"],
              raised |-> FALSE, exc |-> "", net |-> net]
        ELSE
        LET listed == ListedTracks(outcome.body)
            fetched == FetchTracks(listed.tracks, bodies)
        IN  IF listed.raised THEN Raise("AttributeError", net)
            ELSE [ret |-> fetched.subtitles, error |-> <<>>,
                  raised |-> FALSE, exc |-> "", net |-> net \o fetched.net]

\* bilibili_api.get_danmaku(cid): the response is not tested for its status; its content
\* is a well-formed XML document with its <d> elements, or is not XML
bilibili_api_get_danmaku(cid, outcome) ==
    LET net == <<"danmaku">>
    IN  IF outcome.kind \in {"RequestException", "ParseError"}
        THEN [ret |-> <<>>, error |-> [error |-> "Failed to get or parse danmaku"],
              raised |-> FALSE, exc |-> "", net |-> net]
        ELSE [ret |-> outcome.d, error |-> <<>>,
              raised |-> FALSE, exc |-> "", net |-> net]

\* comments_data.get('code') == 0 and comments_data.get('data', {}).get('replies')
ListedReplies(comments_data) ==
    IF ~CodeIsZero(comments_data)
    THEN [raised |-> FALSE, replies |-> <<>>]
    ELSE LET data == Get(comments_data, "data", EmptyDict)
         IN  IF data = Null THEN [raised |-> TRUE, replies |-> <<>>]
             ELSE [raised |-> FALSE, replies |-> Get(data, "replies", <<>>)]

\* the loop over the replies, lines 303-309
RECURSIVE FormatReplies(_)
FormatReplies(replies) ==
    IF replies = <<>> THEN <<>>
    ELSE LET comment == Head(replies)
             message == Get(Get(comment, "content", EmptyDict), "message", None)
         IN  IF ~Truthy(message) THEN FormatReplies(Tail(replies))
             ELSE << [user |-> Get(Get(comment, "member", EmptyDict), "uname", "Unknown User"),
                      content |-> message,
                      likes |-> Get(comment, "like", 0)] >>
                  \o FormatReplies(Tail(replies))

\* bilibili_api.get_comments(aid), under one outcome of its request
bilibili_api_get_comments(aid, outcome) ==
    LET net == <<"reply">>
    IN  IF outcome.kind = "RequestException"
        THEN [ret |-> <<>>, error |-> [error |-> "Failed to get comments"],
              raised |-> FALSE, exc |-> "", net |-> net]
        ELSE
        LET listed == ListedReplies(outcome.body)
        IN  IF listed.raised THEN Raise("AttributeError", net)
            ELSE [ret |-> FormatReplies(listed.replies), error |-> <<>>,
                  raised |-> FALSE, exc |-> "", net |-> net]

\* mutant: an error descriptor of get_video_basic_info is ignored
ViewFailed_Never(error) == FALSE

\* `if error:` after get_video_basic_info (a dict with a key is true)
ViewFailed(error) == error /= <<>>

\* the strings the tools return (the source has them in Chinese)
MsgNoBvid(url) == <<"Error: cannot extract the BV code from the URL: ">> \o url
MsgViewFailed(error) == <<"Failed to get the video info: ", error.error>>
MsgContentFailed(what, error) == <<"Failed to get the ", what, ": ", error.error>>
MsgNoContent(what) == <<"The video has no ", what>>

NotAsked == [kind |-> "none"]

\* the first two stages of a content tool: extract_bvid, then
\* get_video_basic_info when a code was extracted
Resolve(url, head, view) ==
    LET e == extract_bvid(url, head)
    IN  IF e.ret = <<>>
        THEN [done |-> TRUE, result |-> <<MsgNoBvid(url)>>, raised |-> FALSE, exc |-> "",
              net |-> e.net, bvid |-> e.ret, aid |-> None, cid |-> None,
              view_error |-> <<>>]
        ELSE
        LET v == get_video_basic_info(e.ret, view)
        IN  IF v.raised
            THEN [done |-> TRUE, result |-> <<>>, raised |-> TRUE, exc |-> v.exc,
                  net |-> e.net \o v.net, bvid |-> e.ret, aid |-> None, cid |-> None,
                  view_error |-> <<>>]
            ELSE IF ViewFailed(v.error)
            THEN [done |-> TRUE, result |-> <<MsgViewFailed(v.error)>>,
                  raised |-> FALSE, exc |-> "",
                  net |-> e.net \o v.net, bvid |-> e.ret, aid |-> v.aid, cid |-> v.cid,
                  view_error |-> v.error]
            ELSE [done |-> FALSE, result |-> <<>>, raised |-> FALSE, exc |-> "",
                  net |-> e.net \o v.net, bvid |-> e.ret, aid |-> v.aid, cid |-> v.cid,
                  view_error |-> v.error]

\* the last stage of a content tool, given what the fetcher c handed back
Deliver(r, c, what) ==
    IF c.raised
    THEN [r EXCEPT !.done = TRUE, !.raised = TRUE, !.exc = c.exc, !.net = r.net \o c.net]
         @@ [fetched |-> <<>>, fetch_error |-> <<>>]
    ELSE [r EXCEPT !.done = TRUE, !.net = r.net \o c.net,
                   !.result = IF c.error /= <<>> THEN <<MsgContentFailed(what, c.error)>>
                              ELSE IF c.ret = <<>> THEN <<MsgNoContent(what)>>
                              ELSE c.ret]
         @@ [fetched |-> c.ret, fetch_error |-> c.error]

\* a tool that ended before its last stage
Ended(r) == r @@ [fetched |-> <<>>, fetch_error |-> <<>>]

\* the tool server.get_subtitles(url)
get_subtitles(url, head, view, listing, bodies) ==
    LET r == Resolve(url, head, view)
    IN  IF r.done THEN Ended(r)
        ELSE Deliver(r, bilibili_api_get_subtitles(r.aid, r.cid, listing, bodies), "subtitles")

\* the tool server.get_danmaku(url)
get_danmaku(url, head, view, outcome) ==
    LET r == Resolve(url, head, view)
    IN  IF r.done THEN Ended(r)
        ELSE Deliver(r, bilibili_api_get_danmaku(r.cid, outcome), "danmaku")

\* the tool server.get_comments(url)
get_comments(url, head, view, outcome) ==
    LET r == Resolve(url, head, view)
    IN  IF r.done THEN Ended(r)
        ELSE Deliver(r, bilibili_api_get_comments(r.aid, outcome), "comments")

----------------------------------------------------------------------------
(* The initial state: the module as imported *)

Threads == 1..NThreads

\* the tools of server.py
ToolNames == {"get_subtitles", "get_danmaku", "get_comments", "search"}

Init ==
    /\ now = Seconds(StartTime)
    /\ ticks = 0
    /\ _wbi_keys_cache = [img_key |-> None, sub_key |-> None, last_update |-> 0]
    /\ _buvid3_cache = [buvid3 |-> None, b_nut |-> None, last_update |-> 0]
    /\ last = NoCall
    /\ prev = NoCall
    /\ pc = [t \in Threads |-> "idle"]
    /\ loc = [t \in Threads |-> <<>>]
    /\ SESSDATA = get_seesdata("sess").ret
    /\ tools = ToolNames
    /\ boot = "serving"

----------------------------------------------------------------------------
(* SpecCache: the two cache getters, called one at a time *)

CallGetWbiKeys ==
    \E outcome \in NavOutcomes :
        \E r \in {_get_wbi_keys(_wbi_keys_cache, now, outcome)} :
        /\ _wbi_keys_cache' = r.cache
        /\ last' = [op |-> "_get_wbi_keys", at |-> now, pre |-> _wbi_keys_cache,
                    outcome |-> outcome, ret |-> r.ret, net |-> r.net,
                    raised |-> r.raised]
        /\ UNCHANGED <<server, now, ticks, _buvid3_cache, prev, pc, loc>>

CallGetBuvid3 ==
    \E outcome \in HomeOutcomes :
        \E r \in {_get_buvid3(_buvid3_cache, now, outcome)} :
        /\ _buvid3_cache' = r.cache
        /\ last' = [op |-> "_get_buvid3", at |-> now, pre |-> _buvid3_cache,
                    outcome |-> outcome, ret |-> r.ret, net |-> r.net,
                    raised |-> r.raised]
        /\ UNCHANGED <<server, now, ticks, _wbi_keys_cache, prev, pc, loc>>

NextCache == Tick \/ CallGetWbiKeys \/ CallGetBuvid3

SpecCache == Init /\ [][NextCache]_vars

----------------------------------------------------------------------------
(* SpecConc: the cache getters called from several threads at once, as the *)
(* host may dispatch invocations in parallel.  The cache is a dict that is *)
(* read and written one item at a time, with no lock: each item read of a  *)
(* return statement and each item assignment is a step of its own, and a   *)
(* request is in flight between the step that sends it and the step that   *)
(* receives its response.  (The validity test of an "if" is taken as one   *)
(* step: the interleavings here are a subset of those of the threads.)     *)

NoLocals == [current_time |-> 0, first |-> "", second |-> ""]

Goto(t, label) == pc' = [pc EXCEPT ![t] = label]

\* the call of thread t returns (or raises): its locals are dropped
Return(t, op, ret, raised) ==
    /\ last' = [op |-> op, ret |-> ret, raised |-> raised]
    /\ pc' = [pc EXCEPT ![t] = "idle"]
    /\ loc' = [loc EXCEPT ![t] = <<>>]

\* _get_wbi_keys, lines 141-146: current_time = time.time(); the cache test
WbiEnter(t) ==
    /\ pc[t] = "idle"
    /\ loc' = [loc EXCEPT ![t] = [NoLocals EXCEPT !.current_time = now]]
    /\ IF WbiCacheValid(_wbi_keys_cache, now)
       THEN Goto(t, "w_ret1")
       ELSE Goto(t, "w_fetch")
    /\ UNCHANGED <<server, now, ticks, _wbi_keys_cache, _buvid3_cache, last, prev>>

\* "return _wbi_keys_cache['img_key'], _wbi_keys_cache['sub_key']" (lines
\* 146 and 175): the first item is read
WbiRet1(t) ==
    /\ pc[t] = "w_ret1"
    /\ loc' = [loc EXCEPT ![t].first = _wbi_keys_cache.img_key]
    /\ Goto(t, "w_ret2")
    /\ UNCHANGED <<server, now, ticks, _wbi_keys_cache, _buvid3_cache, last, prev>>

\* the second item is read and the pair returned
WbiRet2(t) ==
    /\ pc[t] = "w_ret2"
    /\ Return(t, "_get_wbi_keys", <<loc[t].first, _wbi_keys_cache.sub_key>>, FALSE)
    /\ UNCHANGED <<server, now, ticks, _wbi_keys_cache, _buvid3_cache, prev>>

\* lines 151-164: the response of the nav request arrives
WbiResponse(t) ==
    /\ pc[t] = "w_fetch"
    /\ \E outcome \in NavOutcomes :
        IF outcome.kind = "data_null"
        THEN Return(t, "_get_wbi_keys", <<None, None>>, TRUE)
        ELSE IF outcome.kind = "json"
                /\ WbiStorable(KeyOfUrl(outcome.img_url), KeyOfUrl(outcome.sub_url))
        THEN /\ loc' = [loc EXCEPT ![t].first = KeyOfUrl(outcome.img_url),
                                   ![t].second = KeyOfUrl(outcome.sub_url)]
             /\ Goto(t, "w_set1")
             /\ UNCHANGED last
        ELSE /\ Goto(t, "w_fallback")
             /\ UNCHANGED <<server, loc, last>>
    /\ UNCHANGED <<server, now, ticks, _wbi_keys_cache, _buvid3_cache, prev>>

\* line 165
WbiSet1(t) ==
    /\ pc[t] = "w_set1"
    /\ _wbi_keys_cache' = [_wbi_keys_cache EXCEPT !.img_key = loc[t].first]
    /\ Goto(t, "w_set2")
    /\ UNCHANGED <<server, now, ticks, _buvid3_cache, last, prev, loc>>

\* line 166
WbiSet2(t) ==
    /\ pc[t] = "w_set2"
    /\ _wbi_keys_cache' = [_wbi_keys_cache EXCEPT !.sub_key = loc[t].second]
    /\ Goto(t, "w_set3")
    /\ UNCHANGED <<server, now, ticks, _buvid3_cache, last, prev, loc>>

\* lines 167-168
WbiSet3(t) ==
    /\ pc[t] = "w_set3"
    /\ _wbi_keys_cache' = [_wbi_keys_cache EXCEPT !.last_update = loc[t].current_time]
    /\ Return(t, "_get_wbi_keys", <<loc[t].first, loc[t].second>>, FALSE)
    /\ UNCHANGED <<server, now, ticks, _buvid3_cache, prev>>

\* lines 174-177
WbiFallback(t) ==
    /\ pc[t] = "w_fallback"
    /\ IF Truthy(_wbi_keys_cache.img_key) /\ Truthy(_wbi_keys_cache.sub_key)
       THEN Goto(t, "w_ret1") /\ UNCHANGED <<server, loc, last>>
       ELSE Return(t, "_get_wbi_keys", <<"", "">>, FALSE)
    /\ UNCHANGED <<server, now, ticks, _wbi_keys_cache, _buvid3_cache, prev>>

\* _get_buvid3, lines 87-92
Buvid3Enter(t) ==
    /\ pc[t] = "idle"
    /\ loc' = [loc EXCEPT ![t] = [NoLocals EXCEPT !.current_time = now]]
    /\ IF Buvid3CacheValid(_buvid3_cache, now)
       THEN Goto(t, "b_ret1")
       ELSE Goto(t, "b_fetch")
    /\ UNCHANGED <<server, now, ticks, _wbi_keys_cache, _buvid3_cache, last, prev>>

\* "return _buvid3_cache['buvid3'], _buvid3_cache['b_nut']" (lines 92, 112)
Buvid3Ret1(t) ==
    /\ pc[t] = "b_ret1"
    /\ loc' = [loc EXCEPT ![t].first = _buvid3_cache.buvid3]
    /\ Goto(t, "b_ret2")
    /\ UNCHANGED <<server, now, ticks, _wbi_keys_cache, _buvid3_cache, last, prev>>

Buvid3Ret2(t) ==
    /\ pc[t] = "b_ret2"
    /\ Return(t, "_get_buvid3", <<loc[t].first, _buvid3_cache.b_nut>>, FALSE)
    /\ UNCHANGED <<server, now, ticks, _wbi_keys_cache, _buvid3_cache, prev>>

\* lines 97-101
Buvid3Response(t) ==
    /\ pc[t] = "b_fetch"
    /\ \E outcome \in HomeOutcomes :
        IF outcome.kind = "cookies" /\ Truthy(outcome.buvid3)
        THEN /\ loc' = [loc EXCEPT ![t].first = outcome.buvid3,
                                   ![t].second = outcome.b_nut]
             /\ Goto(t, "b_set1")
        ELSE /\ Goto(t, "b_fallback")
             /\ UNCHANGED loc
    /\ UNCHANGED <<server, now, ticks, _wbi_keys_cache, _buvid3_cache, last, prev>>

\* line 102
Buvid3Set1(t) ==
    /\ pc[t] = "b_set1"
    /\ _buvid3_cache' = [_buvid3_cache EXCEPT !.buvid3 = loc[t].first]
    /\ Goto(t, "b_set2")
    /\ UNCHANGED <<server, now, ticks, _wbi_keys_cache, last, prev, loc>>

\* line 103
Buvid3Set2(t) ==
    /\ pc[t] = "b_set2"
    /\ _buvid3_cache' = [_buvid3_cache EXCEPT !.b_nut = loc[t].second]
    /\ Goto(t, "b_set3")
    /\ UNCHANGED <<server, now, ticks, _wbi_keys_cache, last, prev, loc>>

\* lines 104-105
Buvid3Set3(t) ==
    /\ pc[t] = "b_set3"
    /\ _buvid3_cache' = [_buvid3_cache EXCEPT !.last_update = loc[t].current_time]
    /\ Return(t, "_get_buvid3", <<loc[t].first, loc[t].second>>, FALSE)
    /\ UNCHANGED <<server, now, ticks, _wbi_keys_cache, prev>>

\* lines 111-114
Buvid3Fallback(t) ==
    /\ pc[t] = "b_fallback"
    /\ IF Truthy(_buvid3_cache.buvid3)
       THEN Goto(t, "b_ret1") /\ UNCHANGED <<server, loc, last>>
       ELSE Return(t, "_get_buvid3", <<"", "">>, FALSE)
    /\ UNCHANGED <<server, now, ticks, _wbi_keys_cache, _buvid3_cache, prev>>

NextConc ==
    \E t \in Threads :
        \/ WbiEnter(t) \/ WbiRet1(t) \/ WbiRet2(t) \/ WbiResponse(t)
        \/ WbiSet1(t) \/ WbiSet2(t) \/ WbiSet3(t) \/ WbiFallback(t)
        \/ Buvid3Enter(t) \/ Buvid3Ret1(t) \/ Buvid3Ret2(t) \/ Buvid3Response(t)
        \/ Buvid3Set1(t) \/ Buvid3Set2(t) \/ Buvid3Set3(t) \/ Buvid3Fallback(t)

SpecConc == Init /\ [][NextConc]_vars

----------------------------------------------------------------------------
(* SpecSign: _enc_wbi applied to parameter sets and keys, at clock         *)
(* readings a fraction of a second apart                                   *)

SignParams ==
    { [keyword |-> <<"a">>, page |-> 1],
      [keyword |-> <<"a", "!", "(", "b", ")">>, page |-> 1],
      [keyword |-> <<"a", " ", "&", "b">>, search_type |-> <<"video">>, page |-> 2],
      [keyword |-> <<"a">>, page |-> 1, wts |-> 7] }

SignKeys == {<<"i1", "s1">>, <<"i2", "s2">>}

TickFine ==
    /\ now < Seconds(StartTime + SignSpan)
    /\ now' = now + 1
    /\ UNCHANGED <<server, ticks, _wbi_keys_cache, _buvid3_cache, last, prev, pc, loc>>

CallEncWbi ==
    \E params \in SignParams, keys \in SignKeys :
        \E r \in {_enc_wbi(params, keys[1], keys[2], now)} :
        /\ last' = [op |-> "_enc_wbi", at |-> now, params |-> params, keys |-> keys,
                    caller |-> r.caller, ret |-> r.ret,
                    pre_wbi |-> _wbi_keys_cache, pre_buvid3 |-> _buvid3_cache]
        /\ prev' = last
        /\ UNCHANGED <<server, now, ticks, _wbi_keys_cache, _buvid3_cache, pc, loc>>

NextSign == TickFine \/ CallEncWbi

SpecSign == Init /\ [][NextSign]_vars

----------------------------------------------------------------------------
(* SpecResolver: extract_bvid applied to URLs *)

RECURSIVE SeqsUpTo(_, _)
SeqsUpTo(S, n) ==
    IF n = 0 THEN {<<>>}
    ELSE LET shorter == SeqsUpTo(S, n - 1)
         IN  shorter \cup {Append(u, c) : u \in shorter, c \in S}

UrlTexts ==
    SeqsUpTo({"B", "V", "/"}, MaxUrlLen)
    \cup { <<"/", "B", "V", "1", "_", "/", "1">>, <<"/", "1", "_", "B", "/", "V">> }

\* the URLs given to extract_bvid: with and without the short-link domain
Urls == UrlTexts \cup {ShortDomain \o u : u \in UrlTexts}

\* requests.head(url, allow_redirects=True): a RequestException, or the
\* final response with its status and URL
HeadOutcomes ==
    {RequestException}
    \cup [kind : {"response"}, status_code : {200, 404},
          url : {<<"/", "B", "V", "1", "_", "/">>, <<"/", "1", "/">>,
                 <<"B", "V", "/", "B", "V", "V">>}]

CallExtractBvid ==
    \E url \in Urls, outcome \in HeadOutcomes :
        \E r \in {extract_bvid(url, outcome)} :
        /\ last' = [op |-> "extract_bvid", url |-> url, outcome |-> outcome,
                    ret |-> r.ret, net |-> r.net, raised |-> r.raised,
                    pre_wbi |-> _wbi_keys_cache, pre_buvid3 |-> _buvid3_cache]
        /\ UNCHANGED <<server, now, ticks, _wbi_keys_cache, _buvid3_cache, prev, pc, loc>>

NextResolver == CallExtractBvid

SpecResolver == Init /\ [][NextResolver]_vars

----------------------------------------------------------------------------
(* Spec: the search tool of the server, one invocation at a time (a tool   *)
(* is a coroutine that never awaits, so the event loop runs it to its end). *)

Merge(f, g) == [k \in DOMAIN f \cup DOMAIN g |-> IF k \in DOMAIN g THEN g[k] ELSE f[k]]

SearchTypeArgs == SEARCH_TYPES \cup {<<"videos">>, <<>>}

\* the filters: none given, or each of them given
FilterArgs ==
    { <<>>,
      [duration |-> 0, tids |-> 1, user_type |-> 0, order_sort |-> 1, category_id |-> 0] }

OrderArgs == { <<>>, [order |-> <<"click">>] }

WindowArgs ==
    { [pubtime_begin_s |-> 0, pubtime_end_s |-> 0, recent_days |-> 0, recent_weeks |-> 0],
      [pubtime_begin_s |-> 5, pubtime_end_s |-> 9, recent_days |-> 0, recent_weeks |-> 0],
      [pubtime_begin_s |-> 5, pubtime_end_s |-> 9, recent_days |-> 1, recent_weeks |-> 1] }

MakeArgs(t, f, o, w) ==
    Merge(Merge(Merge([keyword |-> <<"a", "(", "b", ")">>, search_type |-> t, page |-> 1],
                      f), o), w)

NoOrder == <<>>
NoWindow == [pubtime_begin_s |-> 0, pubtime_end_s |-> 0, recent_days |-> 0, recent_weeks |-> 0]

\* every search type with and without the filters, and a video search with
\* every order and publish-time window
SearchArgs ==
    { MakeArgs(t, f, NoOrder, NoWindow) : t \in SearchTypeArgs, f \in FilterArgs }
    \cup { MakeArgs(<<"video">>, <<>>, o, w) : o \in OrderArgs, w \in WindowArgs }

\* the responses the search tool meets
ToolHomeOutcomes == {RequestException} \cup {b \in HomeBodies : b.fetch = 1}
ToolNavOutcomes ==
    {RequestException, [kind |-> "data_null"]} \cup {b \in NavBodies : b.fetch \in {1, 3}}

SearchTool ==
    /\ boot = "serving"
    /\ "search" \in tools
    /\ \E args \in SearchArgs, home \in ToolHomeOutcomes, nav \in ToolNavOutcomes,
       resp \in SearchOutcomes :
        \E r \in {search(args, _wbi_keys_cache, _buvid3_cache, now, home, nav, resp)} :
        /\ _wbi_keys_cache' = r.wbi
        /\ _buvid3_cache' = r.buvid3
        /\ last' = [op |-> "search", at |-> now, args |-> args,
                    pre_wbi |-> _wbi_keys_cache, pre_buvid3 |-> _buvid3_cache,
                    results |-> r.results, error |-> r.error, raised |-> r.raised,
                    net |-> r.net, dispatched |-> r.dispatched, sent |-> r.sent,
                    cookies |-> r.cookies, keys |-> r.keys]
        /\ UNCHANGED <<server, now, ticks, prev, pc, loc>>

Next == SearchTool

Spec == Init /\ [][Next]_vars

----------------------------------------------------------------------------
(* SpecServer: the server from its start, and its three content tools,     *)
(* one invocation at a time.                                               *)

\* os.getenv("SESSDATA") after load_dotenv(): not set, empty, or a secret
EnvValues == {None, "", "sess", "sess2"}

\* the @mcp.tool decorators of server.py, in the order they run
ToolOrder == <<"get_subtitles", "get_danmaku", "get_comments", "search">>

\* the process before `from . import bilibili_api` (server.py line 7)
InitServer ==
    /\ now = Seconds(StartTime)
    /\ ticks = 0
    /\ _wbi_keys_cache = [img_key |-> None, sub_key |-> None, last_update |-> 0]
    /\ _buvid3_cache = [buvid3 |-> None, b_nut |-> None, last_update |-> 0]
    /\ last = NoCall
    /\ prev = NoCall
    /\ pc = [t \in Threads |-> "idle"]
    /\ loc = [t \in Threads |-> <<>>]
    /\ SESSDATA = None
    /\ tools = {}
    /\ boot = "start"

\* server.py line 7: the import of bilibili_api runs SESSDATA = get_seesdata();
\* its ValueError leaves the import, and with it the process
ImportBilibiliApi ==
    /\ boot = "start"
    /\ \E value \in EnvValues :
        \E r \in {get_seesdata(value)} :
        /\ boot' = IF r.raised THEN "aborted" ELSE "imported"
        /\ SESSDATA' = IF r.raised THEN SESSDATA ELSE r.ret
        /\ last' = [op |-> "import", env |-> value, raised |-> r.raised,
                    exc |-> r.exc, net |-> <<>>]
        /\ UNCHANGED <<now, ticks, _wbi_keys_cache, _buvid3_cache, prev, pc, loc, tools>>

\* one @mcp.tool decorator of server.py
RegisterTool ==
    /\ boot = "imported"
    /\ Cardinality(tools) < Len(ToolOrder)
    /\ tools' = tools \cup {ToolOrder[Cardinality(tools) + 1]}
    /\ UNCHANGED <<now, ticks, _wbi_keys_cache, _buvid3_cache, last, prev, pc, loc,
                   SESSDATA, boot>>

\* mcp.run(transport=...) in main(): from here on clients invoke the tools
Run ==
    /\ boot = "imported"
    /\ tools = ToolNames
    /\ boot' = "serving"
    /\ UNCHANGED <<now, ticks, _wbi_keys_cache, _buvid3_cache, last, prev, pc, loc,
                   SESSDATA, tools>>

\* the URLs given to the content tools: with a BV code, a short link, neither
ToolUrls ==
    { <<"/", "B", "V", "1">>, ShortDomain \o <<"/">>, <<"/", "1">> }

ToolHeadOutcomes ==
    { RequestException,
      [kind |-> "response", status_code |-> 200, url |-> <<"/", "B", "V", "1", "_", "/">>],
      [kind |-> "response", status_code |-> 200, url |-> <<"/", "1", "/">>],
      [kind |-> "response", status_code |-> 404, url |-> <<"/", "B", "V", "1", "_", "/">>] }

Json(body) == [kind |-> "json", body |-> body]

\* GET /x/web-interface/view
ViewOutcomes ==
    { RequestException,
      Json([code |-> 0, data |-> [aid |-> "aid1", cid |-> "cid1"]]),
      Json([code |-> 0, data |-> [aid |-> "aid1"]]),
      Json([code |-> -400, message |-> "error"]),
      Json([code |-> 0, data |-> Null]),
      Json([message |-> "error"]) }

\* the content URLs of the subtitle tracks
SubtitleUrls == {"//u1", "//u2"}

\* GET /x/player/wbi/v2
SubtitleOutcomes ==
    { RequestException,
      Json([code |-> 0, data |-> [subtitle |-> [subtitles |->
          << [lan |-> "zh", subtitle_url |-> "//u1"],
             [lan |-> "en", subtitle_url |-> "//u2"] >>]]]),
      Json([code |-> 0, data |-> [subtitle |-> [subtitles |->
          << [lan |-> "en", subtitle_url |-> "//u2"],
             [lan |-> "ja", subtitle_url |-> ""],
             [lan |-> "ko"],
             [lan |-> "zh", subtitle_url |-> "//u1"] >>]]]),
      Json([code |-> 0, data |-> [subtitle |-> [subtitles |-> <<>>]]]),
      Json([code |-> 0, data |-> Null]),
      Json([code |-> -400, message |-> "error"]) }

\* GET of a track's content URL
BodyOutcomes ==
    { RequestException,
      Json([body |-> << [content |-> "line1"], [from |-> 1] >>]),
      Json(EmptyDict) }

\* GET /x/v1/dm/list.so: no response, a document with its <d> elements, or
\* content that is not XML
DanmakuOutcomes ==
    { RequestException,
      [kind |-> "xml", d |-> << <<"d1">>, <<"d2">> >>],
      [kind |-> "xml", d |-> <<>>],
      [kind |-> "ParseError"] }

\* GET /x/v2/reply
CommentOutcomes ==
    { RequestException,
      Json([code |-> 0, data |-> [replies |->
          << [content |-> [message |-> "m1"], member |-> [uname |-> "u1"], like |-> 3],
             [content |-> [message |-> ""], member |-> [uname |-> "u2"], like |-> 1],
             [content |-> [message |-> "m3"]] >>]]),
      Json([code |-> 0, data |-> EmptyDict]),
      Json([code |-> 0, data |-> Null]),
      Json([code |-> 12002, message |-> "closed"]) }

\* the outcome of a request the invocation issued, NotAsked for one it did not
Requested(api, net) == \E i \in 1..Len(net) : net[i] = api

Asked(api, net, outcome) == IF Requested(api, net) THEN outcome ELSE NotAsked

\* what an invocation of a content tool leaves in `last`
ToolCall(op, url, head, view, content, bodies, r) ==
    [op |-> op, url |-> url,
     head |-> Asked("head", r.net, head),
     view |-> Asked("view", r.net, view),
     content |-> content,
     bodies |-> bodies,
     bvid |-> r.bvid, aid |-> r.aid, cid |-> r.cid, view_error |-> r.view_error,
     fetched |-> r.fetched, fetch_error |-> r.fetch_error,
     result |-> r.result, raised |-> r.raised, exc |-> r.exc, net |-> r.net,
     pre_wbi |-> _wbi_keys_cache, pre_buvid3 |-> _buvid3_cache]

GetSubtitlesTool ==
    /\ boot = "serving"
    /\ "get_subtitles" \in tools
    /\ \E url \in ToolUrls, head \in ToolHeadOutcomes, view \in ViewOutcomes,
          listing \in SubtitleOutcomes, bodies \in [SubtitleUrls -> BodyOutcomes] :
        \E r \in {get_subtitles(url, head, view, listing, bodies)} :
        /\ last' = ToolCall("get_subtitles", url, head, view,
                            Asked("subtitle", r.net, listing),
                            [u \in {v \in SubtitleUrls : Requested(v, r.net)}
                                |-> bodies[u]], r)
        /\ UNCHANGED <<now, ticks, _wbi_keys_cache, _buvid3_cache, prev, pc, loc, server>>

GetDanmakuTool ==
    /\ boot = "serving"
    /\ "get_danmaku" \in tools
    /\ \E url \in ToolUrls, head \in ToolHeadOutcomes, view \in ViewOutcomes,
          outcome \in DanmakuOutcomes :
        \E r \in {get_danmaku(url, head, view, outcome)} :
        /\ last' = ToolCall("get_danmaku", url, head, view,
                            Asked("danmaku", r.net, outcome), <<>>, r)
        /\ UNCHANGED <<now, ticks, _wbi_keys_cache, _buvid3_cache, prev, pc, loc, server>>

GetCommentsTool ==
    /\ boot = "serving"
    /\ "get_comments" \in tools
    /\ \E url \in ToolUrls, head \in ToolHeadOutcomes, view \in ViewOutcomes,
          outcome \in CommentOutcomes :
        \E r \in {get_comments(url, head, view, outcome)} :
        /\ last' = ToolCall("get_comments", url, head, view,
                            Asked("reply", r.net, outcome), <<>>, r)
        /\ UNCHANGED <<now, ticks, _wbi_keys_cache, _buvid3_cache, prev, pc, loc, server>>

NextServer ==
    \/ ImportBilibiliApi
    \/ RegisterTool
    \/ Run
    \/ GetSubtitlesTool
    \/ GetDanmakuTool
    \/ GetCommentsTool

SpecServer == InitServer /\ [][NextServer]_vars

----------------------------------------------------------------------------
(* Claims about the credential caches (SpecCache) *)

IsCacheCall == last.op \in {"_get_wbi_keys", "_get_buvid3"}

TTLOf(op) == IF op = "_get_wbi_keys" THEN WBI_KEYS_CACHE_TTL ELSE BUVID3_CACHE_TTL

\* the credential an entry holds, and whether it holds one
PairOf(op, cache) ==
    IF op = "_get_wbi_keys" THEN <<cache.img_key, cache.sub_key>>
    ELSE <<cache.buvid3, cache.b_nut>>

Populated(op, cache) ==
    IF op = "_get_wbi_keys"
    THEN cache.img_key \notin {None, ""} /\ cache.sub_key \notin {None, ""}
    ELSE cache.buvid3 \notin {None, ""}

CacheOf(op) == IF op = "_get_wbi_keys" THEN _wbi_keys_cache ELSE _buvid3_cache

\* C1: a credential fetched at time T is returned unchanged and without a
\* network fetch by a get() at T' with T' - T < TTL; a get() at T' with
\* T' - T >= TTL issues exactly one fetch attempt.
C1_CacheTTL ==
    (IsCacheCall /\ Populated(last.op, last.pre)) =>
        IF last.at - last.pre.last_update < TTLOf(last.op) * TicksPerSecond
        THEN /\ last.ret = PairOf(last.op, last.pre)
             /\ last.net = <<>>
             /\ CacheOf(last.op) = last.pre
             /\ ~last.raised
        ELSE Len(last.net) = 1

\* a get() of the signing keys exactly TTL after the fetch: one refresh attempt
C1_Witness ==
    /\ last.op = "_get_wbi_keys"
    /\ Populated(last.op, last.pre)
    /\ last.at - last.pre.last_update = WBI_KEYS_CACHE_TTL * TicksPerSecond
    /\ last.net = <<"nav">>

\* a refresh that did not deliver the credential: the request failed, or the
\* response lacks a required field
RefreshFailed ==
    /\ IsCacheCall
    /\ last.net /= <<>>
    /\ \/ last.outcome.kind \in {"RequestException", "data_null"}
       \/ /\ last.outcome.kind = "json"
          /\ (last.outcome.img_url = <<>> \/ last.outcome.sub_url = <<>>)
       \/ /\ last.outcome.kind = "cookies"
          /\ last.outcome.buvid3 = ""

\* C2: a failed refresh does not fail the caller: the prior value is returned
\* unchanged if there is one, an empty credential otherwise.
C2_Degradation ==
    RefreshFailed =>
        /\ ~last.raised
        /\ last.ret = IF Populated(last.op, last.pre)
                      THEN PairOf(last.op, last.pre)
                      ELSE <<"", "">>

\* a fetch response with exactly one of the two keys
PartialResponse ==
    /\ last.op = "_get_wbi_keys"
    /\ last.net /= <<>>
    /\ last.outcome.kind = "json"
    /\ (last.outcome.img_url = <<>>) /= (last.outcome.sub_url = <<>>)

\* C4: img_key and sub_key of the cache are both non-empty or both absent; a
\* response with one key only is not stored and not returned as a pair.
C4_PairInvariant ==
    /\ (_wbi_keys_cache.img_key \in {None, ""}) <=> (_wbi_keys_cache.sub_key \in {None, ""})
    /\ (last.op = "_get_wbi_keys" /\ ~last.raised) =>
           ((last.ret[1] = "") <=> (last.ret[2] = ""))
    /\ PartialResponse =>
           /\ _wbi_keys_cache = last.pre
           /\ last.ret = IF Populated(last.op, last.pre)
                         THEN PairOf(last.op, last.pre)
                         ELSE <<"", "">>

\* a one-key response arrives while the cache is empty
C4_Witness ==
    /\ PartialResponse
    /\ ~Populated(last.op, last.pre)
    /\ last.ret = <<"", "">>

\* the pairs a single response of each endpoint carries
FetchedPairs(op) ==
    IF op = "_get_wbi_keys"
    THEN {<<KeyOfUrl(b.img_url), KeyOfUrl(b.sub_url)>> : b \in NavBodies}
    ELSE {<<b.buvid3, b.b_nut>> : b \in HomeBodies}

----------------------------------------------------------------------------
(* Claims about the signature engine (SpecSign) *)

\* C9: _enc_wbi leaves the mapping the caller passed in unchanged (no key
\* added, no value altered) and changes no cache.
C9_SignIsPure ==
    last.op = "_enc_wbi" =>
        /\ last.caller = last.params
        /\ _wbi_keys_cache = last.pre_wbi
        /\ _buvid3_cache = last.pre_buvid3

TwoSignCalls ==
    /\ prev.op = "_enc_wbi"
    /\ last.op = "_enc_wbi"
    /\ prev.params = last.params
    /\ prev.keys = last.keys

\* C10 as stated: two calls with the same params and keys at two instants of
\* the same clock second yield the same wts and the same w_rid.
C10_SameSecond ==
    (TwoSignCalls /\ prev.at \div TicksPerSecond = last.at \div TicksPerSecond) =>
        /\ prev.ret["wts"] = last.ret["wts"]
        /\ prev.ret["w_rid"] = last.ret["w_rid"]

\* the whole second nearest to an instant, a tie going to the even second
NearestSecond(t) ==
    CHOOSE n \in (t \div TicksPerSecond)..(t \div TicksPerSecond + 1) :
        /\ 2 * (n * TicksPerSecond - t) <= TicksPerSecond
        /\ 2 * (t - n * TicksPerSecond) <= TicksPerSecond
        /\ (2 * (n * TicksPerSecond - t) = TicksPerSecond
              \/ 2 * (t - n * TicksPerSecond) = TicksPerSecond) => n % 2 = 0

\* C10 amended: two calls with the same params and keys at two instants that
\* round to the same whole second yield the same wts and the same w_rid.
C10_SameRoundedSecond ==
    (TwoSignCalls /\ NearestSecond(prev.at) = NearestSecond(last.at)) =>
        /\ prev.ret["wts"] = last.ret["wts"]
        /\ prev.ret["w_rid"] = last.ret["w_rid"]

\* two calls in different clock seconds that round to the same second
C10_Witness ==
    /\ TwoSignCalls
    /\ prev.at \div TicksPerSecond /= last.at \div TicksPerSecond
    /\ NearestSecond(prev.at) = NearestSecond(last.at)
    /\ prev.ret["w_rid"] = last.ret["w_rid"]

----------------------------------------------------------------------------
(* Claims about the resolver (SpecResolver) *)

\* the URL text holds a video code: "BV" and one more word character
HasCode(url) ==
    \E i \in 1..(Len(url) - 2) :
        url[i] = "B" /\ url[i + 1] = "V" /\ url[i + 2] \in WordChars

\* s occurs in url
Occurs(s, url) ==
    \E i \in 1..(Len(url) - Len(s) + 1) : SubSeq(url, i, i + Len(s) - 1) = s

\* C5: no network call when the URL text holds a video code; for a short
\* link without a code exactly one redirect-following request, the result
\* being the code of the final URL, or None (not an exception) when the
\* request fails; for any other URL None and no network call.
C5_Resolver ==
    last.op = "extract_bvid" =>
        /\ ~last.raised
        /\ IF HasCode(last.url)
           THEN /\ last.net = <<>>
                /\ HasCode(last.ret)
                /\ Occurs(last.ret, last.url)
           ELSE IF Occurs(ShortDomain, last.url)
           THEN /\ last.net = <<"head">>
                /\ IF last.outcome.kind = "response" /\ last.outcome.status_code = 200
                   THEN /\ last.ret /= <<>> <=> HasCode(last.outcome.url)
                        /\ last.ret /= <<>> => Occurs(last.ret, last.outcome.url)
                   ELSE last.ret = <<>>
           ELSE last.net = <<>> /\ last.ret = <<>>

\* a short link without a code, resolved by one request to a URL with a code
C5_Witness ==
    /\ last.op = "extract_bvid"
    /\ ~HasCode(last.url)
    /\ Occurs(ShortDomain, last.url)
    /\ last.net = <<"head">>
    /\ last.ret = <<"B", "V", "1", "_">>

----------------------------------------------------------------------------
(* Claims about the search tool (Spec) *)

\* the ten search types the tool documents
TenSearchTypes ==
    { <<"video">>, <<"media_bangumi">>, <<"media_ft">>, <<"live">>,
      <<"live_room">>, <<"live_user">>, <<"article">>, <<"topic">>,
      <<"bili_user">>, <<"photo">> }

IsSearch == last.op = "search"

\* C6: a search whose search_type is not one of the ten types returns a
\* validation error and issues no network call; neither cache changes.
C6_InvalidTypeNoNetwork ==
    (IsSearch /\ last.args["search_type"] \notin TenSearchTypes) =>
        /\ last.error = "Invalid search_type"
        /\ last.results = <<>>
        /\ ~last.raised
        /\ last.net = <<>>
        /\ ~last.dispatched
        /\ _wbi_keys_cache = last.pre_wbi
        /\ _buvid3_cache = last.pre_buvid3

C6_Witness ==
    /\ IsSearch
    /\ last.args["search_type"] = <<"videos">>
    /\ last.error = "Invalid search_type"

\* the search types a filter applies to
AppliesTo(field) ==
    CASE field \in {"duration", "tids"} -> {<<"video">>}
      [] field \in {"user_type", "order_sort"} -> {<<"bili_user">>}
      [] field = "category_id" -> {<<"article">>, <<"photo">>}

Filters == {"duration", "tids", "user_type", "order_sort", "category_id"}

\* C7: the parameter set sent holds a filter only if it applies to the
\* search type (and holds it when it does and was given); nothing but the
\* search parameters is sent.
C7_FieldFiltering ==
    (IsSearch /\ last.dispatched) =>
        /\ \A f \in Filters :
              f \in DOMAIN last.sent <=>
                  (f \in DOMAIN last.args /\ last.args["search_type"] \in AppliesTo(f))
        /\ DOMAIN last.sent \subseteq
              Filters \cup {"keyword", "search_type", "page", "order",
                            "pubtime_begin_s", "pubtime_end_s", "wts", "w_rid"}

\* a user search given every filter: user_type is sent, duration and tids are not
C7_Witness ==
    /\ IsSearch
    /\ last.dispatched
    /\ last.args["search_type"] = <<"bili_user">>
    /\ {"duration", "tids", "user_type"} \subseteq DOMAIN last.args
    /\ "user_type" \in DOMAIN last.sent
    /\ "duration" \notin DOMAIN last.sent
    /\ "tids" \notin DOMAIN last.sent

\* C8: the parameter set sent holds wts and w_rid when both keys obtained
\* from the cache are non-empty and neither of them when a key is empty, in
\* which case the request still goes out.
C8_SignedOrUnsigned ==
    (IsSearch /\ last.args["search_type"] \in TenSearchTypes /\ ~last.raised) =>
        /\ last.dispatched
        /\ last.net[Len(last.net)] = "search"
        /\ IF last.keys[1] \notin {None, ""} /\ last.keys[2] \notin {None, ""}
           THEN {"wts", "w_rid"} \subseteq DOMAIN last.sent
           ELSE {"wts", "w_rid"} \cap DOMAIN last.sent = {}

\* no key could be fetched: the request is sent unsigned
C8_Witness ==
    /\ IsSearch
    /\ last.dispatched
    /\ last.keys = <<"", "">>
    /\ "w_rid" \notin DOMAIN last.sent

----------------------------------------------------------------------------
(* Claims about the content tools and the start of the server (SpecServer) *)

IsContentTool == last.op \in {"get_subtitles", "get_danmaku", "get_comments"}

\* the content endpoint of each tool
ContentApi ==
    IF last.op = "get_subtitles" THEN "subtitle"
    ELSE IF last.op = "get_danmaku" THEN "danmaku" ELSE "reply"

ContentName ==
    IF last.op = "get_subtitles" THEN "subtitles"
    ELSE IF last.op = "get_danmaku" THEN "danmaku" ELSE "comments"

\* a response that is no result: no response or an HTTP error status or a
\* body that does not parse, a body without its fields, an application code
\* other than 0
BadResponse(o, fields) ==
    \/ o.kind \in {"RequestException", "ParseError"}
    \/ /\ o.kind = "json"
       /\ \/ "code" \notin DOMAIN o.body
          \/ o.body["code"] /= 0
          \/ \E f \in fields : f \notin DOMAIN o.body \/ o.body[f] = Null

\* C11: no invocation of a tool ends by raising; whenever a network step
\* ends in a transport failure, an HTTP error status, an unparsable body, a
\* body missing expected fields or a non-zero application code, the fetcher
\* returns an empty result with an error descriptor and the tool returns a
\* readable error string.
C11_NoToolRaises ==
    IsContentTool =>
        /\ ~last.raised
        /\ BadResponse(last.view, {"data"}) =>
               /\ last.view_error /= <<>>
               /\ last.result = <<MsgViewFailed(last.view_error)>>
        /\ BadResponse(last.content, {}) =>
               /\ last.fetched = <<>>
               /\ last.fetch_error /= <<>>
               /\ last.result = <<MsgContentFailed(ContentName, last.fetch_error)>>

\* the track list of a listing response that carries one
ListingTracks == last.content.body["data"]["subtitle"]["subtitles"]

\* the subtitle fetcher ran and its listing succeeded
ListingSucceeded ==
    /\ last.op = "get_subtitles"
    /\ last.content.kind = "json"
    /\ CodeIsZero(last.content.body)
    /\ "data" \in DOMAIN last.content.body
    /\ last.content.body["data"] /= Null

HasContentUrl(t) == "subtitle_url" \in DOMAIN t /\ t["subtitle_url"] /= ""

BodyFetched(t) == Get(last.bodies, t["subtitle_url"], NotAsked).kind = "json"

\* C12: when the track listing succeeds, the subtitle fetcher returns exactly
\* the listed tracks with a content URL whose body fetch succeeded, in
\* listing order and without an error; the body of every track with a
\* content URL is requested, whatever became of the requests before it.
C12_PartialSubtitles ==
    ListingSucceeded =>
        LET with_url == SelectSeq(ListingTracks, HasContentUrl)
            succeeded == SelectSeq(with_url, BodyFetched)
        IN  /\ ~last.raised
            /\ last.fetch_error = <<>>
            /\ Len(last.fetched) = Len(succeeded)
            /\ \A i \in 1..Len(succeeded) : last.fetched[i].lan = succeeded[i]["lan"]
            /\ \E k \in 1..Len(last.net) :
                  /\ last.net[k] = "subtitle"
                  /\ SubSeq(last.net, k + 1, Len(last.net))
                         = [i \in 1..Len(with_url) |-> with_url[i]["subtitle_url"]]
            /\ last.result = IF last.fetched = <<>>
                             THEN <<MsgNoContent("subtitles")>> ELSE last.fetched

\* two tracks, the body of the first one fails: a one-element list
C12_Witness ==
    /\ ListingSucceeded
    /\ Len(ListingTracks) = 2
    /\ last.bodies[ListingTracks[1]["subtitle_url"]].kind = "RequestException"
    /\ last.bodies[ListingTracks[2]["subtitle_url"]].kind = "json"
    /\ Len(last.fetched) = 1
    /\ last.fetched[1].lan = ListingTracks[2]["lan"]
    /\ last.fetch_error = <<>>

\* C13: the session secret is checked once, at the import that precedes the
\* registration of the tools: when SESSDATA is not set or empty the start
\* aborts, no tool is registered and no network call is issued; wherever a
\* tool is registered or was invoked the secret is non-empty.
C13_SecretAtStartup ==
    /\ boot = "start" => (tools = {} /\ last = NoCall)
    /\ boot = "aborted" =>
           /\ tools = {}
           /\ last.op = "import" /\ last.raised /\ last.net = <<>>
           /\ last.env \in {None, ""}
    /\ (last.op = "import" /\ last.env \in {None, ""}) => boot = "aborted"
    /\ tools /= {} => (boot \in {"imported", "serving"} /\ SESSDATA \notin {None, ""})
    /\ IsContentTool => (boot = "serving" /\ SESSDATA \notin {None, ""})

\* the start with an empty secret
C13_Witness ==
    /\ boot = "aborted"
    /\ last.op = "import"
    /\ last.env = ""
    /\ tools = {}

\* how often api occurs in net
Count(api, net) == Cardinality({i \in 1..Len(net) : net[i] = api})

\* the stage a network call belongs to
StageOf(api) ==
    IF api = "head" THEN 1 ELSE IF api = "view" THEN 2 ELSE 3

----------------------------------------------------------------------------
(* A claim about the refresh of the credential caches (SpecCache) *)

\* a refresh attempt whose response carries no credential to store
RefreshUnsuccessful ==
    /\ IsCacheCall
    /\ last.net /= <<>>
    /\ \/ last.outcome.kind \in {"RequestException", "data_null"}
       \/ /\ last.outcome.kind = "json"
          /\ (KeyOfUrl(last.outcome.img_url) = "" \/ KeyOfUrl(last.outcome.sub_url) = "")
       \/ /\ last.outcome.kind = "cookies"
          /\ last.outcome.buvid3 = ""

\* the entry is empty or its age has reached the TTL
Stale(op, cache, t) ==
    \/ ~Populated(op, cache)
    \/ t - cache.last_update >= TTLOf(op) * TicksPerSecond

\* C15: a refresh attempt that does not succeed leaves every field of the
\* entry as it was, last_update included; a populated entry never becomes
\* empty; every get() of a stale entry issues a fetch attempt.
C15_FailedRefreshFrame ==
    IsCacheCall =>
        /\ RefreshUnsuccessful => CacheOf(last.op) = last.pre
        /\ Populated(last.op, last.pre) => Populated(last.op, CacheOf(last.op))
        /\ Stale(last.op, last.pre, last.at) => Len(last.net) = 1

\* the refresh of a populated, expired entry fails: the entry keeps its
\* cookies and its timestamp
C15_Witness ==
    /\ last.op = "_get_buvid3"
    /\ Populated(last.op, last.pre)
    /\ last.at - last.pre.last_update >= BUVID3_CACHE_TTL * TicksPerSecond
    /\ RefreshUnsuccessful
    /\ _buvid3_cache = last.pre
    /\ last.net = <<"home">>

====
